---- MODULE Spec2Model ----
(***************************************************************************)
(* Model of the statement parsing engine of bank_soa2je: the CSV parser    *)
(* (lib/csv-parser), the PDF parser (lib/pdf-parser) and their scoring.    *)
(*                                                                         *)
(* Strings are TLA+ strings (sequences of characters), positions are       *)
(* 1-based inside the helpers and converted where the code uses 0-based    *)
(* indexes.  Scores are integers in units of 10^-5 (ScoreUnit = 1.0),      *)
(* money is an integer number of thousandths (parseFloat) or of cents      *)
(* (toFixed(2)); the ascii ratio is an integer number of thousandths.      *)
(***************************************************************************)
EXTENDS Integers, Sequences, FiniteSets, TLC

VARIABLES
    pc,           \* position of the request being served
    tzOffset,     \* host time zone, minutes east of UTC (environment of Date)
    content,      \* CSV request: the decoded file content
    doc,          \* PDF request: what pdfjs yields for the buffer
    fullText,     \* extractFullDocumentText: reconstructed text
    diagnostics,  \* extractFullDocumentText: diagnostics record
    pdfType,      \* detectReadability result
    finalText,    \* parsePdf: text handed to parseStatementText
    ocrAttempted, \* parsePdf: the OCR branch was entered
    outcome       \* what the entry point produced: a return value or a throw

vars == <<pc, tzOffset, content, doc, fullText, diagnostics, pdfType,
          finalText, ocrAttempted, outcome>>

-----------------------------------------------------------------------------
(* Characters and basic string functions (JavaScript String methods).      *)

Digits == {"0", "1", "2", "3", "4", "5", "6", "7", "8", "9"}

UpperAlpha == "ABCDEFGHIJKLMNOPQRSTUVWXYZ"

LowerAlpha == "abcdefghijklmnopqrstuvwxyz"

Ch(s, i) == SubSeq(s, i, i)

UpperLetters == {Ch(UpperAlpha, i) : i \in 1..26}

LowerLetters == {Ch(LowerAlpha, i) : i \in 1..26}

\* \w of a JavaScript regular expression
WordChars == UpperLetters \cup LowerLetters \cup Digits \cup {"_"}

\* \s of a JavaScript regular expression (the members that occur in inputs)
WhiteSpace == {" ", "\t", "\n", "\r"}

\* s.substring(from0, to0): 0-based, end-exclusive; the indexes are clamped
\* to the string and swapped when the first is the larger
substring(s, from0, to0) ==
    LET a == IF from0 < 0 THEN 0 ELSE IF from0 > Len(s) THEN Len(s) ELSE from0
        b == IF to0 < 0 THEN 0 ELSE IF to0 > Len(s) THEN Len(s) ELSE to0
    IN  IF a = b THEN ""
        ELSE IF a < b THEN SubSeq(s, a + 1, b) ELSE SubSeq(s, b + 1, a)

lowerChar(c) ==
    IF c \in UpperLetters
    THEN Ch(LowerAlpha, CHOOSE i \in 1..26 : Ch(UpperAlpha, i) = c)
    ELSE c

\* the operators on whole strings recurse on halves of the index range
RECURSIVE toLowerCaseRange(_, _, _)
toLowerCaseRange(s, lo, hi) ==
    IF lo > hi THEN ""
    ELSE IF lo = hi THEN lowerChar(Ch(s, lo))
    ELSE LET mid == (lo + hi) \div 2
         IN  toLowerCaseRange(s, lo, mid) \o toLowerCaseRange(s, mid + 1, hi)

toLowerCase(s) == toLowerCaseRange(s, 1, Len(s))

\* s.startsWith(p) at 1-based position i
matchesAt(s, p, i) ==
    /\ i >= 1
    /\ i + Len(p) - 1 <= Len(s)
    /\ (Len(p) = 0 \/ SubSeq(s, i, i + Len(p) - 1) = p)

\* s.indexOf(p): 0-based index of the first occurrence, -1 when absent
indexOf(s, p) ==
    IF \E i \in 1..(Len(s) + 1) : matchesAt(s, p, i)
    THEN (CHOOSE i \in 1..(Len(s) + 1) :
             /\ matchesAt(s, p, i)
             /\ \A j \in 1..(i - 1) : ~matchesAt(s, p, j)) - 1
    ELSE -1

includes(s, p) == indexOf(s, p) # -1

startsWith(s, p) == matchesAt(s, p, 1)

\* s.trim()
trim(s) ==
    LET keep == {i \in 1..Len(s) : Ch(s, i) \notin WhiteSpace}
    IN  IF keep = {} THEN ""
        ELSE SubSeq(s, CHOOSE i \in keep : \A j \in keep : i <= j,
                       CHOOSE i \in keep : \A j \in keep : i >= j)

\* parts.map((part) => part.trim())
trimAll(parts) == [i \in 1..Len(parts) |-> trim(parts[i])]

\* s.replace(/[^...]/g, "") : keep only the characters of a class
RECURSIVE keepCharsRange(_, _, _, _)
keepCharsRange(s, class, lo, hi) ==
    IF lo > hi THEN ""
    ELSE IF lo = hi THEN (IF Ch(s, lo) \in class THEN Ch(s, lo) ELSE "")
    ELSE LET mid == (lo + hi) \div 2
         IN  keepCharsRange(s, class, lo, mid) \o keepCharsRange(s, class, mid + 1, hi)

keepChars(s, class) == keepCharsRange(s, class, 1, Len(s))

\* s.replace(/[...]/g, "") : drop the characters of a class
RECURSIVE dropCharsRange(_, _, _, _)
dropCharsRange(s, class, lo, hi) ==
    IF lo > hi THEN ""
    ELSE IF lo = hi THEN (IF Ch(s, lo) \in class THEN "" ELSE Ch(s, lo))
    ELSE LET mid == (lo + hi) \div 2
         IN  dropCharsRange(s, class, lo, mid) \o dropCharsRange(s, class, mid + 1, hi)

dropChars(s, class) == dropCharsRange(s, class, 1, Len(s))

\* number of characters of a class: (s.match(/[...]/g) || []).length
countChars(s, class) == Cardinality({i \in 1..Len(s) : Ch(s, i) \in class})

\* the pieces of s between the separators at the positions sepPos
splitAt(s, sepPos) ==
    LET n      == Cardinality(sepPos)
        \* position of the k-th separator; 0 and Len(s) + 1 bracket the string
        at(k)  == IF k = 0 THEN 0
                  ELSE IF k = n + 1 THEN Len(s) + 1
                  ELSE CHOOSE i \in sepPos :
                           Cardinality({j \in sepPos : j <= i}) = k
    IN  [k \in 1..(n + 1) |->
            IF at(k - 1) + 1 > at(k) - 1 THEN ""
            ELSE SubSeq(s, at(k - 1) + 1, at(k) - 1)]

\* s.split(/[seps]/) for single-character separators: a tuple of strings
split(s, seps) == splitAt(s, {i \in 1..Len(s) : Ch(s, i) \in seps})

\* s.replace(/\s+/g, " ")
RECURSIVE collapseWhitespaceRange(_, _, _)
collapseWhitespaceRange(s, lo, hi) ==
    IF lo > hi THEN ""
    ELSE IF lo = hi
    THEN (IF Ch(s, lo) \notin WhiteSpace THEN Ch(s, lo)
          ELSE IF lo > 1 /\ Ch(s, lo - 1) \in WhiteSpace THEN "" ELSE " ")
    ELSE LET mid == (lo + hi) \div 2
         IN  collapseWhitespaceRange(s, lo, mid) \o collapseWhitespaceRange(s, mid + 1, hi)

collapseWhitespace(s) == collapseWhitespaceRange(s, 1, Len(s))

\* rows.join(sep)
RECURSIVE join(_, _)
join(parts, sep) ==
    IF Len(parts) = 0 THEN ""
    ELSE IF Len(parts) = 1 THEN parts[1]
    ELSE parts[1] \o sep \o join(Tail(parts), sep)

\* all characters of s[from..to] (1-based, inclusive) are in class
allIn(s, from, to, class) == \A k \in from..to : Ch(s, k) \in class

\* length of the maximal run of class characters starting at 1-based i
runLength(s, i, class) ==
    LET ends == {n \in 0..(Len(s) - i + 1) :
                    /\ allIn(s, i, i + n - 1, class)
                    /\ (i + n > Len(s) \/ Ch(s, i + n) \notin class)}
    IN  IF i > Len(s) THEN 0 ELSE CHOOSE n \in ends : TRUE

digitValue(c) == CHOOSE v \in 0..9 : Ch("0123456789", v + 1) = c

\* value of a string of decimal digits (Number.parseInt on \d+)
RECURSIVE parseDigits(_)
parseDigits(s) ==
    IF Len(s) = 0 THEN 0
    ELSE 10 * parseDigits(SubSeq(s, 1, Len(s) - 1)) + digitValue(Ch(s, Len(s)))

\* decimal digits of a natural number
RECURSIVE natToString(_)
natToString(n) ==
    IF n < 10 THEN Ch("0123456789", n + 1)
    ELSE natToString(n \div 10) \o Ch("0123456789", (n % 10) + 1)

\* String(n).padStart(width, "0")
RECURSIVE padStart(_, _)
padStart(s, width) == IF Len(s) >= width THEN s ELSE padStart("0" \o s, width)

-----------------------------------------------------------------------------
(* JavaScript Date, as far as the normalizers use it.                      *)

\* day number of day d of the month mp (0 = March) of the year yy that
\* starts in March
daysFromMarchYear(yy, mp, d) ==
    (yy \div 400) * 146097
    + (yy % 400) * 365 + (yy % 400) \div 4 - (yy % 400) \div 100
    + (153 * mp + 2) \div 5 + d - 1
    - 719468

\* day number (days since 1970-01-01) of a proleptic Gregorian date
daysFromCivil(y, m, d) ==
    daysFromMarchYear(IF m <= 2 THEN y - 1 ELSE y, IF m > 2 THEN m - 3 ELSE m + 9, d)

\* the date of day doy of the month mp (0 = March) of the March year y
civilFromMonth(y, doy, mp) ==
    [year  |-> IF mp < 10 THEN y ELSE y + 1,
     month |-> IF mp < 10 THEN mp + 3 ELSE mp - 9,
     day   |-> doy - (153 * mp + 2) \div 5 + 1]

\* the date of day doy (0 = March 1) of the March year y
civilFromDayOfYear(y, doy) == civilFromMonth(y, doy, (5 * doy + 2) \div 153)

\* the date of day doe of year yoe of a 400-year era
civilFromYearOfEra(era, doe, yoe) ==
    civilFromDayOfYear(yoe + era * 400,
                       doe - (365 * yoe + yoe \div 4 - yoe \div 100))

\* the date of day doe of a 400-year era
civilFromDayOfEra(era, doe) ==
    civilFromYearOfEra(era, doe,
        (doe - doe \div 1460 + doe \div 36524 - doe \div 146096) \div 365)

\* the date of a day number
civilFromDays(z) ==
    civilFromDayOfEra((z + 719468) \div 146097, (z + 719468) % 146097)

\* time value, in minutes since the epoch, of new Date(year, monthIndex, day):
\* years 0..99 mean 1900..1999, month and day overflow roll over, and the
\* fields are local time
dateFromFields(year, monthIndex, day, tz) ==
    LET y1 == IF year >= 0 /\ year <= 99 THEN 1900 + year ELSE year
        ym == y1 + (monthIndex \div 12)
        mn == monthIndex % 12
    IN  [valid |-> TRUE,
         minutes |-> (daysFromCivil(ym, mn + 1, 1) + day - 1) * 1440 - tz]

\* new Date("YYYY-MM-DD") on V8: a date-only ISO string is UTC; a month outside
\* 1..12 or a day outside 1..31 gives an Invalid Date, a day beyond the end of
\* the month rolls over
dateFromIsoString(iso) ==
    LET y == parseDigits(SubSeq(iso, 1, 4))
        m == parseDigits(SubSeq(iso, 6, 7))
        d == parseDigits(SubSeq(iso, 9, 10))
    IN  IF m \in 1..12 /\ d \in 1..31
        THEN [valid |-> TRUE, minutes |-> (daysFromCivil(y, m, 1) + d - 1) * 1440]
        ELSE [valid |-> FALSE, minutes |-> 0]

\* YYYY-MM-DD of toISOString for the date c; years outside 0..9999 are
\* written with a sign and 6 digits
isoDateOfCivil(c) ==
    (IF c.year \in 0..9999 THEN padStart(natToString(c.year), 4)
     ELSE IF c.year < 0 THEN "-" \o padStart(natToString(-c.year), 6)
     ELSE "+" \o padStart(natToString(c.year), 6))
    \o "-" \o padStart(natToString(c.month), 2)
    \o "-" \o padStart(natToString(c.day), 2)

\* date.toISOString().split("T")[0]
toISODateString(date) == isoDateOfCivil(civilFromDays(date.minutes \div 1440))

DateChars == Digits \cup {"/", "-", "."}

DateSeparators == {"/", "-", "."}

\* /^\d{4}-\d{2}-\d{2}$/.test(s)
isIsoDate(s) ==
    /\ Len(s) = 10
    /\ allIn(s, 1, 4, Digits) /\ Ch(s, 5) = "-"
    /\ allIn(s, 6, 7, Digits) /\ Ch(s, 8) = "-"
    /\ allIn(s, 9, 10, Digits)

\* the pieces between the separators are 1 or 2, 1 or 2 and 4 digits
isNumericParts(parts) ==
    /\ Len(parts) = 3
    /\ Len(parts[1]) \in 1..2 /\ allIn(parts[1], 1, Len(parts[1]), Digits)
    /\ Len(parts[2]) \in 1..2 /\ allIn(parts[2], 1, Len(parts[2]), Digits)
    /\ Len(parts[3]) = 4 /\ allIn(parts[3], 1, 4, Digits)

\* /^\d{1,2}[/\-.]\d{1,2}[/\-.]\d{4}$/.test(s)
isNumericDate(s) == isNumericParts(split(s, DateSeparators))

\* new Date(parseInt(parts[2]), parseInt(parts[0]) - 1, parseInt(parts[1]))
dateFromParts(parts, tz) ==
    dateFromFields(parseDigits(parts[3]), parseDigits(parts[1]) - 1,
                   parseDigits(parts[2]), tz)

\* normalizeDate of the CSV parser: the Date the cleaned string gives; the
\* third branch of the code repeats the test of the second and is dead
dateOfCleanDate(cleanDate, tz) ==
    IF isIsoDate(cleanDate) THEN dateFromIsoString(cleanDate)
    ELSE IF isNumericDate(cleanDate)
    THEN dateFromParts(split(cleanDate, DateSeparators), tz)
    ELSE [valid |-> FALSE, minutes |-> 0]

\* normalizeDate of the CSV parser: the value returned for the Date
isoDateOrEmpty(date) == IF ~date.valid THEN "" ELSE toISODateString(date)

\* normalizeDate of the CSV parser
normalizeDateCsv(dateStr, tz) ==
    IF dateStr = "" THEN ""
    ELSE isoDateOrEmpty(dateOfCleanDate(keepChars(dateStr, DateChars), tz))

MonthNames == <<"jan", "feb", "mar", "apr", "may", "jun",
                "jul", "aug", "sep", "oct", "nov", "dec">>

\* smallest member of a non-empty set of positions
minOf(S) == CHOOSE i \in S : \A j \in S : i <= j

noMonthForm == [ok |-> FALSE, month |-> "", day |-> "", year |-> "", last |-> 0]

\* /(\w{3})\s+(\d{1,2}),?\s+(\d{4})/ tried at 1-based position i, read from
\* left to right: the groups once the positions are known. dPos and dLen are
\* the position and the length of the run of digits after the first white
\* space, ws2 the length of the white space before the year at yPos
monthFormGroups(s, i, dPos, dLen, ws2, yPos) ==
    IF /\ i + 2 <= Len(s)
       /\ allIn(s, i, i + 2, WordChars)
       /\ dPos > i + 3
       /\ dLen \in 1..2
       /\ ws2 >= 1
       /\ yPos + 3 <= Len(s)
       /\ allIn(s, yPos, yPos + 3, Digits)
    THEN [ok |-> TRUE,
          month |-> SubSeq(s, i, i + 2),
          day   |-> SubSeq(s, dPos, dPos + dLen - 1),
          year  |-> SubSeq(s, yPos, yPos + 3),
          last  |-> yPos + 3]
    ELSE noMonthForm

\* ... ,?\s+(\d{4}) from position cPos, just after the day
monthFormYear(s, i, dPos, dLen, cPos) ==
    monthFormGroups(s, i, dPos, dLen, runLength(s, cPos, WhiteSpace),
                    cPos + runLength(s, cPos, WhiteSpace))

\* ... (\d{1,2}),?\s+(\d{4}) with the day at dPos
monthFormDay(s, i, dPos, dLen) ==
    monthFormYear(s, i, dPos, dLen,
                  IF dPos + dLen <= Len(s) /\ Ch(s, dPos + dLen) = ","
                  THEN dPos + dLen + 1 ELSE dPos + dLen)

\* ... \s+(\d{1,2}),?\s+(\d{4}) with the day at dPos
monthFormFrom(s, i, dPos) == monthFormDay(s, i, dPos, runLength(s, dPos, Digits))

\* one attempt of /(\w{3})\s+(\d{1,2}),?\s+(\d{4})/ at 1-based position i
monthFormAt(s, i) == monthFormFrom(s, i, i + 3 + runLength(s, i + 3, WhiteSpace))

\* the leftmost of the positions where the pattern matches
monthFormFirst(s, hits) == IF hits = {} THEN noMonthForm ELSE monthFormAt(s, minOf(hits))

\* s.match(/(\w{3})\s+(\d{1,2}),?\s+(\d{4})/): the leftmost match
monthFormMatch(s) == monthFormFirst(s, {i \in 1..Len(s) : monthFormAt(s, i).ok})

\* monthNames.indexOf(name): 0-based, -1 when absent
monthIndexOf(name) ==
    IF \E k \in 1..12 : MonthNames[k] = name
    THEN (CHOOSE k \in 1..12 : MonthNames[k] = name) - 1
    ELSE -1

\* normalizeDate of the PDF parser, the month-name form: the date of the
\* match, "" when there is no match or the three letters are no month
monthNameDate(monthMatch) ==
    IF monthMatch.ok /\ monthIndexOf(monthMatch.month) # -1
    THEN monthMatch.year
         \o "-" \o padStart(natToString(monthIndexOf(monthMatch.month) + 1), 2)
         \o "-" \o padStart(natToString(parseDigits(monthMatch.day)), 2)
    ELSE ""

\* normalizeDate of the PDF parser, the numeric form
numericDate(parts, tz) == toISODateString(dateFromParts(parts, tz))

\* normalizeDate of the PDF parser, on the cleaned string and the date of the
\* month-name form
normalizeDateForms(cleanDate, monthDate, tz) ==
    IF isIsoDate(cleanDate) THEN cleanDate
    ELSE IF monthDate # "" THEN monthDate
    ELSE IF isNumericDate(cleanDate)
    THEN numericDate(split(cleanDate, DateSeparators), tz)
    ELSE ""

\* normalizeDate of the PDF parser
normalizeDatePdf(dateStr, tz) ==
    normalizeDateForms(keepChars(dateStr, DateChars),
                       monthNameDate(monthFormMatch(toLowerCase(dateStr))), tz)

-----------------------------------------------------------------------------
(* Numbers: Number.parseFloat and Number.prototype.toFixed(2).             *)

\* Number.parseFloat(s) once the prefix [+-]digits[.digits] is delimited:
\* iLen integer digits from position start, then fLen fraction digits after
\* the point; the value is kept in thousandths (fraction digits beyond the
\* third are dropped)
parseFloatValue(s, neg, start, iLen, fLen) ==
    IF iLen = 0 /\ fLen = 0 THEN [nan |-> TRUE, milli |-> 0]
    ELSE [nan |-> FALSE,
          milli |-> (IF neg THEN -1 ELSE 1)
                    * (parseDigits(SubSeq(s, start, start + iLen - 1)) * 1000
                       + (IF fLen >= 1
                          THEN digitValue(Ch(s, start + iLen + 1)) * 100 ELSE 0)
                       + (IF fLen >= 2
                          THEN digitValue(Ch(s, start + iLen + 2)) * 10 ELSE 0)
                       + (IF fLen >= 3
                          THEN digitValue(Ch(s, start + iLen + 3)) ELSE 0))]

\* the fraction digits after the integer digits
parseFloatFraction(s, neg, start, iLen) ==
    parseFloatValue(s, neg, start, iLen,
                    IF start + iLen <= Len(s) /\ Ch(s, start + iLen) = "."
                    THEN runLength(s, start + iLen + 1, Digits) ELSE 0)

\* the integer digits after the sign
parseFloatDigits(s, neg, start) ==
    parseFloatFraction(s, neg, start, runLength(s, start, Digits))

\* Number.parseFloat(s): the longest prefix [+-]digits[.digits]
parseFloat(s) ==
    parseFloatDigits(s, Len(s) >= 1 /\ Ch(s, 1) = "-",
                     IF Len(s) >= 1 /\ Ch(s, 1) \in {"-", "+"} THEN 2 ELSE 1)

\* x.toFixed(2) for a value in thousandths; a third fraction digit of 5 is
\* rounded away from zero (the pools hold amounts of at most 2 fraction digits)
toFixed2(milli) ==
    LET mag   == IF milli < 0 THEN -milli ELSE milli
        cents == (mag + 5) \div 10
    IN  (IF milli < 0 THEN "-" ELSE "")
        \o natToString(cents \div 100) \o "." \o padStart(natToString(cents % 100), 2)

AmountChars == Digits \cup {".", ","}

\* a variant that forgets the sign
formatAmount_Unsigned(amount, isNegative) ==
    IF amount.nan THEN "0.00" ELSE toFixed2(amount.milli)

\* (isNegative ? -amount : amount).toFixed(2), "0.00" when the amount is NaN
formatAmount(amount, isNegative) ==
    IF amount.nan THEN "0.00"
    ELSE toFixed2(IF isNegative THEN -amount.milli ELSE amount.milli)

\* normalizeAmount of the CSV parser
normalizeAmountCsv(amountStr) ==
    formatAmount(parseFloat(dropChars(keepChars(amountStr, AmountChars), {","})),
                 includes(amountStr, "(") \/ startsWith(amountStr, "-"))

\* normalizeAmount of the PDF parser
normalizeAmountPdf(amountStr) ==
    formatAmount(parseFloat(dropChars(keepChars(dropChars(amountStr, {"$", "(", ")"}),
                                                AmountChars), {","})),
                 \/ (includes(amountStr, "(") /\ includes(amountStr, ")"))
                 \/ startsWith(amountStr, "-"))

-----------------------------------------------------------------------------
(* Currency detection (detectCurrencyFromRow / detectCurrency).            *)

\* /US\s*Dollar/i on the lower-cased text
hasUsDollar(lower) ==
    \E i \in 1..Len(lower) :
        /\ matchesAt(lower, "us", i)
        /\ matchesAt(lower, "dollar", i + 2 + runLength(lower, i + 2, WhiteSpace))

\* /S\$|SGD|Singapore/i on the lower-cased text
hasSgd(lower) ==
    includes(lower, "s$") \/ includes(lower, "sgd") \/ includes(lower, "singapore")

\* a variant that looks for the Singapore dollar before the US dollar
detectCurrency_SgdFirst(text) ==
    IF hasSgd(toLowerCase(text)) THEN "SGD"
    ELSE IF includes(text, "$") \/ includes(toLowerCase(text), "usd")
            \/ hasUsDollar(toLowerCase(text)) THEN "USD"
    ELSE IF includes(text, "€") \/ includes(toLowerCase(text), "eur") THEN "EUR"
    ELSE IF includes(text, "£") \/ includes(toLowerCase(text), "gbp")
            \/ includes(toLowerCase(text), "pound") THEN "GBP"
    ELSE IF includes(text, "₱") \/ includes(toLowerCase(text), "php")
            \/ includes(toLowerCase(text), "peso") THEN "PHP"
    ELSE "USD"

\* the ordered pattern table, first match wins, default USD
detectCurrency(text) ==
    LET lower == toLowerCase(text)
    IN  IF includes(lower, "$") \/ includes(lower, "usd") \/ hasUsDollar(lower)
        THEN "USD"
        ELSE IF includes(lower, "€") \/ includes(lower, "eur") THEN "EUR"
        ELSE IF includes(lower, "£") \/ includes(lower, "gbp")
                \/ includes(lower, "pound") THEN "GBP"
        ELSE IF includes(lower, "₱") \/ includes(lower, "php")
                \/ includes(lower, "peso") THEN "PHP"
        ELSE IF hasSgd(lower) THEN "SGD"
        ELSE "USD"

-----------------------------------------------------------------------------
(* Scoring.  A score is an integer number of 10^-5.                        *)

ScoreUnit == 100000

DateWeight == 50000

AmountWeight == 40000

DescriptionWeight == 10000

BankWeight == 50000

StatementDateWeight == 10000

BalanceWeight == 20000

ReconciliationBonus == 10000

\* Math.abs(...) < 0.01, in thousandths
ReconciliationTolerance == 10

calculateTransactionScore_TwoTokens(txn) ==
    (IF txn.date # "" /\ isIsoDate(txn.date) THEN DateWeight ELSE 0)
    + (IF txn.amount # "" /\ ~parseFloat(txn.amount).nan THEN AmountWeight ELSE 0)
    + (IF txn.description # "" /\ Len(split(txn.description, {" "})) >= 2
       THEN DescriptionWeight ELSE 0)

\* calculateTransactionScore (the two parsers hold the same function)
calculateTransactionScore(txn) ==
    (IF txn.date # "" /\ isIsoDate(txn.date) THEN DateWeight ELSE 0)
    + (IF txn.amount # "" /\ ~parseFloat(txn.amount).nan THEN AmountWeight ELSE 0)
    + (IF txn.description # "" /\ Len(split(txn.description, {" "})) >= 3
       THEN DescriptionWeight ELSE 0)

\* calculateHeaderScore of the CSV parser: the fields are tested for truthiness
calculateHeaderScoreCsv(header) ==
    (IF header.bank # "" \/ header.bankAccount # "" \/ header.customerAccount # ""
     THEN BankWeight ELSE 0)
    + (IF header.statementDate # "" THEN StatementDateWeight ELSE 0)
    + (IF header.openingBalance # "" THEN BalanceWeight ELSE 0)
    + (IF header.closingBalance # "" THEN BalanceWeight ELSE 0)

\* calculateHeaderScore of the PDF parser: the fields are tested against the
\* sentinels as well
calculateHeaderScorePdf(header) ==
    (IF \/ (header.bank # "" /\ header.bank # "unknown")
        \/ (header.bankAccount # "" /\ header.bankAccount # "unknown")
        \/ (header.customerAccount # "" /\ header.customerAccount # "unknown")
     THEN BankWeight ELSE 0)
    + (IF header.statementDate # "" /\ header.statementDate # "unknown"
       THEN StatementDateWeight ELSE 0)
    + (IF header.openingBalance # "" /\ header.openingBalance # "0"
       THEN BalanceWeight ELSE 0)
    + (IF header.closingBalance # "" /\ header.closingBalance # "0"
       THEN BalanceWeight ELSE 0)

\* allScores.reduce((sum, score) => sum + score, 0)
RECURSIVE sumRowScores(_)
sumRowScores(transactions) ==
    IF Len(transactions) = 0 THEN 0
    ELSE transactions[1].rowScore + sumRowScores(Tail(transactions))

\* sum + Number.parseFloat(txn.amount), in thousandths; NaN is absorbing
addAmounts(sum, amount) ==
    [nan |-> sum.nan \/ amount.nan, milli |-> sum.milli + amount.milli]

\* transactions.reduce((sum, txn) => sum + Number.parseFloat(txn.amount), 0)
RECURSIVE sumAmounts(_)
sumAmounts(transactions) ==
    IF Len(transactions) = 0 THEN [nan |-> FALSE, milli |-> 0]
    ELSE addAmounts(sumAmounts(SubSeq(transactions, 1, Len(transactions) - 1)),
                    parseFloat(transactions[Len(transactions)].amount))

\* Math.abs(opening + transactionSum - closing) < 0.01; false when a term is NaN
withinTolerance(opening, transactionSum, closing) ==
    /\ ~opening.nan /\ ~transactionSum.nan /\ ~closing.nan
    /\ opening.milli + transactionSum.milli - closing.milli < ReconciliationTolerance
    /\ closing.milli - opening.milli - transactionSum.milli < ReconciliationTolerance

\* the reconciliation test of calculateDocumentScore
reconciles(header, transactions) ==
    withinTolerance(parseFloat(dropChars(header.openingBalance, {","})),
                    sumAmounts(transactions),
                    parseFloat(dropChars(header.closingBalance, {","})))

\* Math.round(x * 100000) / 100000 of the non-negative fraction num / den
roundScore(num, den) == (2 * num + den) \div (2 * den)

\* calculateDocumentScore of the CSV parser: the exact value as a fraction
calculateDocumentScoreCsv(header, transactions) ==
    LET n     == 1 + Len(transactions)
        total == header.rowScore + sumRowScores(transactions)
        bonus == IF /\ header.openingBalance # "" /\ header.closingBalance # ""
                    /\ reconciles(header, transactions)
                 THEN ReconciliationBonus ELSE 0
    IN  [num |-> total + bonus * n, den |-> n]

\* calculateDocumentScore of the PDF parser: rounded to 5 decimals
calculateDocumentScorePdf(header, transactions) ==
    LET n     == 1 + Len(transactions)
        total == header.rowScore + sumRowScores(transactions)
        bonus == IF /\ header.openingBalance # "0" /\ header.closingBalance # "0"
                    /\ reconciles(header, transactions)
                 THEN ReconciliationBonus ELSE 0
    IN  roundScore(total + bonus * n, n)

-----------------------------------------------------------------------------
(* The CSV parser.                                                         *)

\* first n elements of a sequence: seq.slice(0, n)
firstN(seq, n) == SubSeq(seq, 1, IF Len(seq) < n THEN Len(seq) ELSE n)

DelimiterSampleLines == 5

RECURSIVE countInLines(_, _)
countInLines(lines, c) ==
    IF Len(lines) = 0 THEN 0
    ELSE (IF trim(lines[1]) # "" THEN countChars(lines[1], {c}) ELSE 0)
         + countInLines(Tail(lines), c)

\* detectDelimiter
detectDelimiter(text) ==
    LET lines          == firstN(split(text, {"\n"}), DelimiterSampleLines)
        commaCount     == countInLines(lines, ",")
        semicolonCount == countInLines(lines, ";")
    IN  IF semicolonCount > commaCount THEN ";" ELSE ","

\* one record of csv-parse: the cells of a line, each trimmed (trim: true)
csvRecord(line, delimiter) == trimAll(split(line, {delimiter}))

\* the records of the lines
csvRecords(lines, delimiter) ==
    [i \in 1..Len(lines) |-> csvRecord(lines[i], delimiter)]

\* what csv-parse gives for the records: it throws when a quote is left open
\* and when a record has not the number of cells of the first record
csvResult(records, openQuote) ==
    IF openQuote \/ (\E i \in 1..Len(records) : Len(records[i]) # Len(records[1]))
    THEN [ok |-> FALSE, records |-> <<>>]
    ELSE [ok |-> TRUE, records |-> records]

\* parse(content, {delimiter, skip_empty_lines: true, trim: true}) of csv-parse:
\* empty lines are skipped.  Quoted fields that are closed are outside the
\* modelled inputs.
csvParse(text, delimiter) ==
    csvResult(csvRecords(SelectSeq(split(text, {"\n"}), LAMBDA l : l # ""), delimiter),
              countChars(text, {"\""}) % 2 = 1)

HeaderKeywords == <<"date", "transaction", "description", "amount", "debit",
                    "credit", "txn", "details", "amt", "posting", "reference">>

\* isHeaderRow
isHeaderRow(row) ==
    IF Len(row) = 0 THEN FALSE
    ELSE LET firstCell == trim(toLowerCase(row[1]))
         IN  \E k \in 1..Len(HeaderKeywords) : includes(firstCell, HeaderKeywords[k])

\* the header literal of parseCsv and createEmptyStatement
sentinelHeader ==
    [bank |-> "unknown", bankAccount |-> "unknown", customerAccount |-> "unknown",
     statementDate |-> "unknown", openingBalance |-> "0", closingBalance |-> "0",
     rowScore |-> 0]

\* createEmptyStatement
createEmptyStatement ==
    [header |-> sentinelHeader, transactions |-> <<>>, documentScore |-> 0]

\* the object a row of at least 3 cells is mapped to
csvRowToTxn(row, tz) ==
    [date        |-> normalizeDateCsv(trim(row[1]), tz),
     description |-> trim(row[2]),
     amount      |-> normalizeAmountCsv(IF trim(row[3]) = "" THEN "0" ELSE trim(row[3])),
     currency    |-> detectCurrency(join(row, " ")),
     rowScore    |-> 0]

\* the rows that survive the map and the filter: at least 3 cells, a date and
\* a description that are not empty
csvRowKept(row, tz) ==
    /\ Len(row) >= 3
    /\ normalizeDateCsv(trim(row[1]), tz) # ""
    /\ trim(row[2]) # ""

\* transactions.map((txn) => ({...txn, rowScore: calculateTransactionScore(txn)}))
scoreTransactions(transactions) ==
    [i \in 1..Len(transactions) |->
        [transactions[i] EXCEPT !.rowScore = calculateTransactionScore(transactions[i])]]

\* the rows after the header row, if the first row is one
dataRowsOf(records) == IF isHeaderRow(records[1]) THEN Tail(records) ELSE records

\* the map and the filter of parseCsv over the data rows
csvTransactions(rows, tz) ==
    [i \in 1..Len(rows) |-> csvRowToTxn(rows[i], tz)]

\* Math.round(documentScore * 100000) / 100000
roundedScore(score) == roundScore(score.num, score.den)

\* the statement parseCsv returns for the scored header and transactions
csvStatement(header, transactions) ==
    [kind |-> "return",
     value |-> [header |-> header,
                transactions |-> transactions,
                documentScore |->
                    roundedScore(calculateDocumentScoreCsv(header, transactions))]]

\* parseCsv from line 24 on: the records are there and there is at least one
parseCsvRecords(records, tz) ==
    csvStatement(
        [sentinelHeader EXCEPT !.rowScore = calculateHeaderScoreCsv(sentinelHeader)],
        scoreTransactions(
            csvTransactions(SelectSeq(dataRowsOf(records),
                                      LAMBDA row : csvRowKept(row, tz)), tz)))

parseCsvResult_NoCatch(parsed, tz) ==
    IF ~parsed.ok THEN [kind |-> "throw", value |-> createEmptyStatement]
    ELSE IF Len(parsed.records) = 0
    THEN [kind |-> "return", value |-> createEmptyStatement]
    ELSE parseCsvRecords(parsed.records, tz)

\* parseCsv after the call of csv-parse: a throw of the library is caught and
\* gives the empty statement, as does an empty list of records
parseCsvResult(parsed, tz) ==
    IF ~parsed.ok THEN [kind |-> "return", value |-> createEmptyStatement]
    ELSE IF Len(parsed.records) = 0
    THEN [kind |-> "return", value |-> createEmptyStatement]
    ELSE parseCsvRecords(parsed.records, tz)

\* parseCsv: the value returned, or the fault thrown
parseCsv(text, tz) == parseCsvResult(csvParse(text, detectDelimiter(text)), tz)

-----------------------------------------------------------------------------
(* The PDF parser: text reconstruction and readability.                    *)

\* the page items of pdfjs: [str, x, y] with x = transform[4], y = transform[5]

LineTolerance == 5

\* the comparator of items.sort
compareItems(a, b) ==
    LET yDiff == b.y - a.y
    IN  IF yDiff > LineTolerance THEN 1
        ELSE IF yDiff < -LineTolerance THEN -1
        ELSE a.x - b.x

\* items.sort(compareItems), as the stable insertion sort the engine applies
\* to short arrays
RECURSIVE sortItems(_)
sortItems(items) ==
    IF Len(items) <= 1 THEN items
    ELSE LET sorted == sortItems(SubSeq(items, 1, Len(items) - 1))
             item   == items[Len(items)]
             below  == {k \in 1..Len(sorted) : compareItems(sorted[k], item) <= 0}
             j      == IF below = {} THEN 0
                       ELSE CHOOSE k \in below : \A m \in below : m <= k
         IN  SubSeq(sorted, 1, j) \o <<item>> \o SubSeq(sorted, j + 1, Len(sorted))

\* if (lineText.trim()) fullText += lineText.trim() + "\n"
flushLine(text, lineText) ==
    IF trim(lineText) # "" THEN text \o trim(lineText) \o "\n" ELSE text

\* the walk over the sorted items of one page, from item i on
RECURSIVE walkItems(_, _, _, _, _)
walkItems(items, i, currentY, lineText, text) ==
    IF i > Len(items) THEN flushLine(text, lineText)
    ELSE LET item == items[i]
             dy   == IF currentY - item.y < 0 THEN item.y - currentY
                     ELSE currentY - item.y
         IN  IF dy > LineTolerance
             THEN walkItems(items, i + 1, item.y, item.str, flushLine(text, lineText))
             ELSE walkItems(items, i + 1, currentY,
                            (IF /\ lineText # ""
                                /\ Ch(lineText, Len(lineText)) # " "
                                /\ ~startsWith(item.str, " ")
                             THEN lineText \o " " ELSE lineText) \o item.str,
                            text)

\* the body of the page loop for page i of the document
RECURSIVE reconstructPages(_, _, _)
reconstructPages(pages, i, text) ==
    IF i > Len(pages) THEN text
    ELSE LET items    == sortItems(pages[i])
             currentY == IF Len(items) = 0 THEN 0 ELSE items[1].y
             withPage == walkItems(items, 1, currentY, "", text)
         IN  reconstructPages(pages, i + 1,
                              IF i < Len(pages) THEN withPage \o "\n" ELSE withPage)

\* [\x20-\x7E]; the grave accent (x60) cannot be written in a string of
\* this language and does not occur in the inputs
PrintableAscii ==
    LET all == " !\"#$%&'(" \o ")*+,-./0123456789:;<=>?@" \o UpperAlpha
               \o "[\\]^_" \o LowerAlpha \o "{|}~"
    IN  {Ch(all, i) : i \in 1..Len(all)}

\* the diagnostics of a reconstructed text; asciiRatio in thousandths
computeDiagnostics(text, pageCount) ==
    LET textLength == Len(text)
        asciiCount == countChars(text, PrintableAscii)
    IN  [textLength |-> textLength,
         digitCount |-> countChars(text, Digits),
         asciiRatio |-> IF textLength > 0
                        THEN (2 * asciiCount * 1000 + textLength) \div (2 * textLength)
                        ELSE 0,
         pageCount  |-> pageCount]

emptyExtraction ==
    [fullText |-> "",
     diagnostics |-> [textLength |-> 0, digitCount |-> 0, asciiRatio |-> 0,
                      pageCount |-> 0]]

\* extractFullDocumentText: an empty buffer and a document pdfjs cannot open
\* throw inside the try block and are caught
extractFullDocumentText(d) ==
    IF d.kind # "pages" THEN emptyExtraction
    ELSE LET text == reconstructPages(d.pages, 1, "")
         IN  [fullText |-> text,
              diagnostics |-> computeDiagnostics(text, Len(d.pages))]

detectReadability_LooseScan(text, diag) ==
    IF diag.textLength > 200 /\ diag.digitCount > 10 /\ diag.asciiRatio > 700
    THEN "text"
    ELSE IF diag.textLength > 50 /\ diag.digitCount > 3 THEN "text"
    ELSE IF Len(text) > 10 THEN "scanned"
    ELSE "unreadable"

detectReadability_ScanAbove50(text, diag) ==
    IF diag.textLength > 200 /\ diag.digitCount > 10 /\ diag.asciiRatio > 700
    THEN "text"
    ELSE IF diag.textLength > 50 /\ diag.digitCount > 3 THEN "text"
    ELSE IF diag.textLength > 50 THEN "scanned"
    ELSE "unreadable"

\* detectReadability
detectReadability(text, diag) ==
    IF diag.textLength > 200 /\ diag.digitCount > 10 /\ diag.asciiRatio > 700
    THEN "text"
    ELSE IF diag.textLength > 50 /\ diag.digitCount > 3 THEN "text"
    ELSE IF diag.textLength > 10 THEN "scanned"
    ELSE "unreadable"

\* extractTextWithOCR: the stub throws unconditionally
extractTextWithOCR(d) == [kind |-> "throw", value |-> ""]

\* parsePdf, step 3: the condition of the OCR branch
ocrNeeded(type, diag) ==
    type = "scanned" \/ (type = "unreadable" /\ diag.textLength < 50)

finalTextAfterOcr_Discard(text, ocr) ==
    IF ocr.kind = "return" THEN ocr.value ELSE ""

\* parsePdf, step 3: finalText after the OCR attempt; a throw is caught and
\* leaves the reconstructed text in place
finalTextAfterOcr(text, ocr) ==
    IF ocr.kind = "return" THEN ocr.value ELSE text

-----------------------------------------------------------------------------
(* The PDF parser: header and transaction extraction.                      *)

\* [\d,]+\.\d{2} at 1-based position j: the position of its last character,
\* 0 when it does not match
numberTailAt(s, j) ==
    LET run == runLength(s, j, Digits \cup {","})
        dot == j + run
    IN  IF /\ run >= 1
           /\ dot + 2 <= Len(s)
           /\ Ch(s, dot) = "."
           /\ allIn(s, dot + 1, dot + 2, Digits)
        THEN dot + 2 ELSE 0

\* /\$[\d,]+\.\d{2}/ at position i
dollarAmountAt(s, i) ==
    IF i <= Len(s) /\ Ch(s, i) = "$" THEN numberTailAt(s, i + 1) ELSE 0

\* the first alternative of /\$?[\d,]+\.\d{2}|$$[\d,]+\.\d{2}$$/ at position
\* i; the second alternative starts with an end-of-input assertion followed by
\* a character and matches nowhere
amountAt(s, i) ==
    IF i <= Len(s) /\ Ch(s, i) = "$" THEN numberTailAt(s, i + 1)
    ELSE numberTailAt(s, i)

\* /\d{4}-\d{2}-\d{2}/ at position i
isoDateAt(s, i) ==
    IF i + 9 <= Len(s) /\ isIsoDate(SubSeq(s, i, i + 9)) THEN i + 9 ELSE 0

\* /\d{1,2}[/-]\d{1,2}[/-]\d{4}/ at position i
numericDateAt(s, i) ==
    LET n1 == runLength(s, i, Digits)
        s1 == i + n1
        n2 == runLength(s, s1 + 1, Digits)
        s2 == s1 + 1 + n2
    IN  IF /\ n1 \in 1..2
           /\ s1 <= Len(s) /\ Ch(s, s1) \in {"/", "-"}
           /\ n2 \in 1..2
           /\ s2 <= Len(s) /\ Ch(s, s2) \in {"/", "-"}
           /\ s2 + 4 <= Len(s)
           /\ allIn(s, s2 + 1, s2 + 4, Digits)
        THEN s2 + 4 ELSE 0

\* /\d{4}-\d{2}-\d{2}|\w{3}\s+\d{1,2},?\s+\d{4}|\d{1,2}[/-]\d{1,2}[/-]\d{4}/
\* at position i: the alternatives in their order
headerDateAt(s, i) ==
    IF isoDateAt(s, i) # 0 THEN isoDateAt(s, i)
    ELSE IF monthFormAt(s, i).ok THEN monthFormAt(s, i).last
    ELSE numericDateAt(s, i)

\* /[*x\d\s-]{4,}/i at position i
accountRunAt(s, i) ==
    LET run == runLength(s, i, Digits \cup WhiteSpace \cup {"*", "x", "X", "-"})
    IN  IF run >= 4 THEN i + run - 1 ELSE 0

\* s.match(re): the leftmost position where the pattern matches and the text
\* matched there; ends[i] is the last position of the match tried at i, 0 for
\* none
firstMatch(s, ends) ==
    LET hits == {i \in DOMAIN ends : ends[i] # 0}
    IN  IF hits = {} THEN [found |-> FALSE, text |-> "", index |-> -1]
        ELSE [found |-> TRUE,
              text  |-> SubSeq(s, minOf(hits), ends[minOf(hits)]),
              index |-> minOf(hits) - 1]

\* line.match(/[*x\d\s-]{4,}/i)
accountMatchOf(line) == firstMatch(line, [i \in 1..Len(line) |-> accountRunAt(line, i)])

\* line.match of the statement date pattern
headerDateMatchOf(line) == firstMatch(line, [i \in 1..Len(line) |-> headerDateAt(line, i)])

\* line.match(/\$[\d,]+\.\d{2}/)
balanceMatchOf(line) == firstMatch(line, [i \in 1..Len(line) |-> dollarAmountAt(line, i)])

\* line.match(/\d{4}-\d{2}-\d{2}/)
isoDateMatchOf(line) == firstMatch(line, [i \in 1..Len(line) |-> isoDateAt(line, i)])

\* line.match of the amount pattern
amountMatchOf(line) == firstMatch(line, [i \in 1..Len(line) |-> amountAt(line, i)])

HeaderScanLines == 15

\* the body of the loop of extractHeaderInfo for one line, given the
\* lower-cased line and the matches of the three patterns
headerFields(header, line, lowerLine, accountMatch, dateMatch, balanceMatch, tz) ==
    [bank |->
        IF /\ (includes(lowerLine, "bank") \/ includes(lowerLine, "credit card"))
           /\ includes(lowerLine, "statement")
           /\ header.bank = "unknown"
        THEN trim(collapseWhitespace(line)) ELSE header.bank,
     bankAccount |-> header.bankAccount,
     customerAccount |->
        IF /\ includes(lowerLine, "account") /\ includes(lowerLine, "number")
           /\ accountMatch.found
        THEN trim(accountMatch.text) ELSE header.customerAccount,
     statementDate |->
        IF /\ includes(lowerLine, "statement") /\ includes(lowerLine, "date")
           /\ dateMatch.found
        THEN normalizeDatePdf(dateMatch.text, tz) ELSE header.statementDate,
     openingBalance |->
        IF includes(lowerLine, "opening") /\ balanceMatch.found
        THEN SubSeq(balanceMatch.text, 2, Len(balanceMatch.text))
        ELSE header.openingBalance,
     closingBalance |->
        IF includes(lowerLine, "closing") /\ balanceMatch.found
        THEN SubSeq(balanceMatch.text, 2, Len(balanceMatch.text))
        ELSE header.closingBalance,
     rowScore |-> header.rowScore]

\* the body of the loop of extractHeaderInfo for one line
headerStep(header, line, tz) ==
    headerFields(header, line, toLowerCase(line), accountMatchOf(line),
                 headerDateMatchOf(line), balanceMatchOf(line), tz)

RECURSIVE extractHeaderFrom(_, _, _, _)
extractHeaderFrom(lines, i, header, tz) ==
    IF i > Len(lines) \/ i > HeaderScanLines THEN header
    ELSE extractHeaderFrom(lines, i + 1, headerStep(header, lines[i], tz), tz)

\* extractHeaderInfo
extractHeaderInfo(lines, tz) == extractHeaderFrom(lines, 1, sentinelHeader, tz)

HeaderLineKeywords == <<"statement", "account", "balance", "total", "summary",
                        "date", "description", "amount", "debit", "credit">>

\* isHeaderLine
isHeaderLine(line) ==
    /\ \E k \in 1..Len(HeaderLineKeywords) :
           includes(toLowerCase(line), HeaderLineKeywords[k])
    /\ ~isoDateMatchOf(line).found

\* s.replace(/[^\w\s\-.]/g, " ")
RECURSIVE blankOutRange(_, _, _, _)
blankOutRange(s, class, lo, hi) ==
    IF lo > hi THEN ""
    ELSE IF lo = hi THEN (IF Ch(s, lo) \in class THEN Ch(s, lo) ELSE " ")
    ELSE LET mid == (lo + hi) \div 2
         IN  blankOutRange(s, class, lo, mid) \o blankOutRange(s, class, mid + 1, hi)

blankOut(s, class) == blankOutRange(s, class, 1, Len(s))

\* mergeMultilineDescription
mergeMultilineDescription(description) ==
    trim(blankOut(collapseWhitespace(description),
                  WordChars \cup WhiteSpace \cup {"-", "."}))

\* the description of a line: the text between the date and the amount when
\* the date comes first, else the text before the date or, when there is
\* none, the text after the amount
descriptionOf(line, dateText, amountText, dateIndex, amountIndex, beforeDate) ==
    IF dateIndex < amountIndex
    THEN trim(substring(line, dateIndex + Len(dateText), amountIndex))
    ELSE IF beforeDate # "" THEN beforeDate
    ELSE trim(substring(line, amountIndex + Len(amountText), Len(line)))

\* the transaction a line with a date, an amount and that description adds
transactionOf(description, dateText, amountText, currency, tz) ==
    IF Len(description) >= 1
    THEN << [date        |-> normalizeDatePdf(dateText, tz),
             description |-> mergeMultilineDescription(description),
             amount      |-> normalizeAmountPdf(amountText),
             currency    |-> currency,
             rowScore    |-> 0] >>
    ELSE <<>>

\* the body of the loop of extractTransactions for a line that is no header
\* line, given the matches of the date and the amount patterns
transactionOfMatches(line, dateMatch, amountMatch, currency, tz) ==
    IF ~dateMatch.found \/ ~amountMatch.found THEN <<>>
    ELSE transactionOf(
             descriptionOf(line, dateMatch.text, amountMatch.text,
                           indexOf(line, dateMatch.text),
                           indexOf(line, amountMatch.text),
                           trim(substring(line, 0, indexOf(line, dateMatch.text)))),
             dateMatch.text, amountMatch.text, currency, tz)

\* the body of the loop of extractTransactions for one line: the transactions
\* the line adds (none or one)
transactionsOfLine(line, currency, tz) ==
    IF isHeaderLine(line) THEN <<>>
    ELSE transactionOfMatches(line, isoDateMatchOf(line), amountMatchOf(line),
                              currency, tz)

RECURSIVE extractTransactionsFrom(_, _, _, _)
extractTransactionsFrom(lines, i, currency, tz) ==
    IF i > Len(lines) THEN <<>>
    ELSE transactionsOfLine(lines[i], currency, tz)
         \o extractTransactionsFrom(lines, i + 1, currency, tz)

\* extractTransactions
extractTransactions(lines, tz) ==
    extractTransactionsFrom(lines, 1, detectCurrency(join(lines, " ")), tz)

\* text.split("\n").map((line) => line.trim()).filter((line) => line)
textLines(text) == SelectSeq(trimAll(split(text, {"\n"})), LAMBDA l : l # "")

\* parseStatementText from the extraction on: documentScore is computed from
\* the header and the transactions as extracted, whose rowScore is still 0;
\* the row scores are filled in afterwards
scoredStatement(header, transactions) ==
    [kind |-> "return",
     value |-> [header |-> [header EXCEPT !.rowScore = calculateHeaderScorePdf(header)],
                transactions |-> scoreTransactions(transactions),
                documentScore |-> calculateDocumentScorePdf(header, transactions)]]

\* parseStatementText on the lines of the text
parseStatementLines(lines, tz) ==
    scoredStatement(extractHeaderInfo(lines, tz), extractTransactions(lines, tz))

\* parseStatementText
parseStatementText(text, tz) == parseStatementLines(textLines(text), tz)

-----------------------------------------------------------------------------
(* Inputs.                                                                 *)

MaxRows == 3

MaxLines == 2

\* the host time zones, minutes east of UTC
TimeZones == {-300, 480}

\* lines of CSV files
RowPool ==
    {"Date,Description,Amount",
     "2024-01-15,Coffee Shop Purchase,4.50",
     "2024-01-16,Grocery Store,85.23",
     "01/17/2024,Refund  Credit,($4.50)",
     "2024-01-18,Wire Transfer Fee,abc",
     "notadate,ATM Cash,20.00",
     "",
     "\"2024-01-19,Open Quote,1.00"}

\* a CSV file: every line is followed by a line feed
RECURSIVE csvFile(_)
csvFile(rows) ==
    IF Len(rows) = 0 THEN "" ELSE rows[1] \o "\n" \o csvFile(Tail(rows))

CsvContents ==
    {csvFile(rows) : rows \in UNION {[1..n -> RowPool] : n \in 0..MaxRows}}

\* lines of statements
LinePool ==
    {"First Bank Statement",
     "Account Number: ****1234",
     "Statement Date: 01/05/2024",
     "Opening Balance $100.00",
     "Closing Balance $100.00",
     "2024-03-01 Monthly Service Fee $12.00",
     "2024-03-02 Refund ($50.00)",
     "$5.00 2024-03-03 Cafe",
     "2024-03-04 ## $7.00"}

\* the items of one line of a page at height y: the text up to the first
\* space and the rest, the rest listed first
lineItems(line, y) ==
    LET sp == indexOf(line, " ")
    IN  IF sp = -1 THEN << [str |-> line, x |-> 50, y |-> y] >>
        ELSE << [str |-> substring(line, sp + 1, Len(line)),
                 x |-> 50 + 6 * (sp + 1), y |-> y - 2],
                [str |-> substring(line, 0, sp), x |-> 50, y |-> y] >>

RECURSIVE pageItems(_, _)
pageItems(lines, y) ==
    IF Len(lines) = 0 THEN <<>>
    ELSE lineItems(lines[1], y) \o pageItems(Tail(lines), y - 20)

\* a document whose first page holds the first k lines and whose second page,
\* if k is not the number of lines, holds the others
pdfDocument(lines, k) ==
    [kind |-> "pages",
     pages |-> IF k = Len(lines) THEN << pageItems(lines, 700) >>
               ELSE << pageItems(SubSeq(lines, 1, k), 700),
                       pageItems(SubSeq(lines, k + 1, Len(lines)), 700) >>]

PdfDocuments ==
    {[kind |-> "empty", pages |-> <<>>], [kind |-> "corrupt", pages |-> <<>>]}
    \cup {pdfDocument(lines, k) :
            <<lines, k>> \in {<<ls, j>> \in (UNION {[1..n -> LinePool] : n \in 0..MaxLines})
                                             \X (0..MaxLines) :
                                  j = Len(ls) \/ (j = 1 /\ Len(ls) >= 2)}}

-----------------------------------------------------------------------------
(* The requests.                                                           *)

noOutcome == [kind |-> "none", value |-> createEmptyStatement]

noDiagnostics == emptyExtraction.diagnostics

noDocument == [kind |-> "none", pages |-> <<>>]

Init ==
    /\ pc = "idle"
    /\ tzOffset \in TimeZones
    /\ content = ""
    /\ doc = noDocument
    /\ fullText = ""
    /\ diagnostics = noDiagnostics
    /\ pdfType = "none"
    /\ finalText = ""
    /\ ocrAttempted = FALSE
    /\ outcome = noOutcome

\* POST with a .csv file: parseCsv(buffer)
CsvRequest ==
    /\ pc = "idle"
    /\ \E text \in CsvContents :
          /\ content' = text
          /\ outcome' = parseCsv(text, tzOffset)
    /\ pc' = "csv_done"
    /\ UNCHANGED <<tzOffset, doc, fullText, diagnostics, pdfType, finalText,
                   ocrAttempted>>

\* parsePdf, step 1: extractFullDocumentText(buffer)
PdfExtract ==
    /\ pc = "idle"
    /\ \E d \in PdfDocuments :
          /\ doc' = d
          /\ fullText' = extractFullDocumentText(d).fullText
          /\ diagnostics' = extractFullDocumentText(d).diagnostics
    /\ pc' = "extracted"
    /\ UNCHANGED <<tzOffset, content, pdfType, finalText, ocrAttempted, outcome>>

\* parsePdf, step 2: detectReadability(fullText, diagnostics)
PdfClassify ==
    /\ pc = "extracted"
    /\ pdfType' = detectReadability(fullText, diagnostics)
    /\ finalText' = fullText
    /\ pc' = "classified"
    /\ UNCHANGED <<tzOffset, content, doc, fullText, diagnostics, ocrAttempted,
                   outcome>>

\* parsePdf, step 3, branch taken: the OCR attempt
PdfOcrAttempt ==
    /\ pc = "classified"
    /\ ocrNeeded(pdfType, diagnostics)
    /\ finalText' = finalTextAfterOcr(finalText, extractTextWithOCR(doc))
    /\ ocrAttempted' = TRUE
    /\ pc' = "ready"
    /\ UNCHANGED <<tzOffset, content, doc, fullText, diagnostics, pdfType, outcome>>

\* parsePdf, step 3, branch not taken
PdfOcrSkip ==
    /\ pc = "classified"
    /\ ~ocrNeeded(pdfType, diagnostics)
    /\ pc' = "ready"
    /\ UNCHANGED <<tzOffset, content, doc, fullText, diagnostics, pdfType,
                   finalText, ocrAttempted, outcome>>

\* parsePdf, steps 4 and 5: parseStatementText(finalText) and the return; a
\* throw of parseStatementText is rethrown by the catch block
PdfParse ==
    /\ pc = "ready"
    /\ outcome' = parseStatementText(finalText, tzOffset)
    /\ pc' = "pdf_done"
    /\ UNCHANGED <<tzOffset, content, doc, fullText, diagnostics, pdfType,
                   finalText, ocrAttempted>>

Next ==
    \/ CsvRequest
    \/ PdfExtract
    \/ PdfClassify
    \/ PdfOcrAttempt
    \/ PdfOcrSkip
    \/ PdfParse

Spec == Init /\ [][Next]_vars

-----------------------------------------------------------------------------
(* The readability classifier on its own: detectReadability applied to     *)
(* diagnostics and texts drawn independently of each other.                *)

TextLengths == {0, 10, 11, 30, 50, 51, 200, 201, 300}

DigitCounts == {0, 3, 4, 10, 11, 15}

AsciiRatios == {0, 700, 701, 850, 900, 1000}

PageCounts == {0, 1, 3}

ClassifierTexts == {"", "Bank Statement 2024"}

InitReadability ==
    /\ pc = "given"
    /\ tzOffset = 0
    /\ content = ""
    /\ doc = noDocument
    /\ fullText \in ClassifierTexts
    /\ diagnostics \in [textLength : TextLengths, digitCount : DigitCounts,
                        asciiRatio : AsciiRatios, pageCount : PageCounts]
    /\ pdfType = "none"
    /\ finalText = ""
    /\ ocrAttempted = FALSE
    /\ outcome = noOutcome

\* detectReadability(text, diagnostics)
DetectReadabilityCall ==
    /\ pc = "given"
    /\ pdfType' = detectReadability(fullText, diagnostics)
    /\ pc' = "classified_given"
    /\ UNCHANGED <<tzOffset, content, doc, fullText, diagnostics, finalText,
                   ocrAttempted, outcome>>

NextReadability == DetectReadabilityCall

SpecReadability == InitReadability /\ [][NextReadability]_vars

-----------------------------------------------------------------------------
(* The functions on their own: each is applied to inputs drawn from a pool. *)

\* the state before a function is applied to the text, on a host at tz
givenInput(text, tz) ==
    /\ pc = "given"
    /\ tzOffset = tz
    /\ content = text
    /\ doc = noDocument
    /\ fullText = ""
    /\ diagnostics = noDiagnostics
    /\ pdfType = "none"
    /\ finalText = ""
    /\ ocrAttempted = FALSE
    /\ outcome = noOutcome

\* files of up to MaxSampleLines lines, blank lines included
MaxSampleLines == 6

DelimiterLinePool == {"", "a,b", "p;q;r"}

DelimiterContents ==
    {csvFile(rows) : rows \in UNION {[1..n -> DelimiterLinePool] : n \in 0..MaxSampleLines}}

\* dates written month/day/year, with and without leading zeros
DaysInMonth(m, y) ==
    IF m = 2 THEN (IF y % 4 = 0 /\ (y % 100 # 0 \/ y % 400 = 0) THEN 29 ELSE 28)
    ELSE IF m \in {4, 6, 9, 11} THEN 30 ELSE 31

DateYears == {99, 2023, 2024}

NumericDateCases ==
    {c \in [m : 1..12, d : {1, 15, 28, 29, 30, 31}, y : DateYears, pad : {1, 2}] :
        c.d <= DaysInMonth(c.m, c.y)}

numericDateText(c) ==
    padStart(natToString(c.m), c.pad) \o "/" \o padStart(natToString(c.d), c.pad)
    \o "/" \o padStart(natToString(c.y), 4)

NumericDateInputs == {numericDateText(c) : c \in NumericDateCases}

\* ISO dates, real and impossible, month names, out-of-range fields, no date
OtherDateInputs ==
    {"2024-01-15", "2024-02-29", "2023-12-31", "2023-02-29", "2024-02-31",
     "2024-13-45", "2024-00-10", "13/01/2024", "02/30/2024", "00/10/2024",
     "Feb 31, 2024", "Jan 5, 2024", "December 25, 2023", "abc", ""}

DateInputs == NumericDateInputs \cup OtherDateInputs

\* amounts in cents, written with and without a currency symbol, thousands
\* separators, trailing zeros of the fraction, a minus sign or parentheses
AmountValues == {450, 5000, 120050, 1234567}

RECURSIVE groupThousands(_)
groupThousands(n) ==
    IF n < 1000 THEN natToString(n)
    ELSE groupThousands(n \div 1000) \o "," \o padStart(natToString(n % 1000), 3)

AmountCases ==
    {c \in [v : AmountValues, sym : {"", "$", "€"}, grouped : BOOLEAN,
            frac : 0..2, sign : {"plus", "minus", "parens"}] :
        /\ c.frac = 1 => c.v % 10 = 0
        /\ c.frac = 0 => c.v % 100 = 0}

amountNumberText(c) ==
    (IF c.grouped THEN groupThousands(c.v \div 100) ELSE natToString(c.v \div 100))
    \o (IF c.frac = 0 THEN ""
        ELSE IF c.frac = 1 THEN "." \o natToString((c.v % 100) \div 10)
        ELSE "." \o padStart(natToString(c.v % 100), 2))

amountText(c) ==
    IF c.sign = "minus" THEN "-" \o c.sym \o amountNumberText(c)
    ELSE IF c.sign = "parens" THEN "(" \o c.sym \o amountNumberText(c) \o ")"
    ELSE c.sym \o amountNumberText(c)

\* texts without a number
UnparsableAmounts == {"", "abc", "N/A", "-", "$", "()", ".", ","}

AmountInputs == {amountText(c) : c \in AmountCases} \cup UnparsableAmounts

\* texts with none, one or two currency cues
CurrencyFragments ==
    {"Total 5.00", "$5.00", "S$5.00", "usd", "US Dollar", "€5.00", "Euro",
     "£3", "Pound Sterling", "₱100", "peso", "SGD 5", "Singapore"}

CurrencyInputs ==
    CurrencyFragments \cup {a \o " " \o b : a, b \in CurrencyFragments}

\* lines of statement texts: header fields, some with two values, and
\* transactions
StatementLinePool ==
    {"First Bank Statement",
     "Second Bank Statement",
     "Account Number: ****1234",
     "Account Number: ****5678",
     "Statement Date: 01/05/2024",
     "Opening Balance $100.00",
     "Opening Balance $200.00",
     "Closing Balance $100.00",
     "2024-03-01 Monthly Service Fee $12.00",
     "2024-03-02 Refund ($50.00)",
     "$5.00 2024-03-03 Cafe",
     "2024-03-05 Transfer 20.00 EUR"}

MaxStatementLines == 2

\* a line that sets no header field and adds no transaction
FillerLine == "Page 1 of 2"

\* texts of up to MaxStatementLines pool lines, and texts of 16 lines whose
\* 15th and 16th line are pool lines
StatementTexts ==
    {csvFile(ls) :
        ls \in UNION {[1..n -> StatementLinePool] : n \in 0..MaxStatementLines}}
    \cup {csvFile([i \in 1..(HeaderScanLines - 1) |-> FillerLine] \o ls) :
              ls \in [1..2 -> StatementLinePool]}

\* page items whose heights are equal, 2 apart or at least 8 apart, so that
\* the comparator of the sort orders them consistently; one item is blank
FragmentPool ==
    {[str |-> "A", x |-> 50, y |-> 700],
     [str |-> "B", x |-> 100, y |-> 700],
     [str |-> "C", x |-> 50, y |-> 698],
     [str |-> "D", x |-> 100, y |-> 690],
     [str |-> "E", x |-> 50, y |-> 690],
     [str |-> " ", x |-> 50, y |-> 680]}

MaxFragments == 3

\* documents of one page of up to MaxFragments items, and of two pages of at
\* most one item each
FragmentDocuments ==
    {[kind |-> "pages", pages |-> <<items>>] :
        items \in UNION {[1..n -> FragmentPool] : n \in 0..MaxFragments}}
    \cup {[kind |-> "pages", pages |-> <<first, second>>] :
              first, second \in UNION {[1..n -> FragmentPool] : n \in 0..1}}

FunctionInputs ==
    DelimiterContents \cup DateInputs \cup AmountInputs \cup CurrencyInputs
    \cup StatementTexts

InitFunctions == \E text \in FunctionInputs, tz \in TimeZones : givenInput(text, tz)

\* detectDelimiter(content)
DetectDelimiterCall ==
    /\ pc = "given"
    /\ content \in DelimiterContents
    /\ pc' = "delimiter_done"
    /\ finalText' = detectDelimiter(content)
    /\ UNCHANGED <<tzOffset, content, doc, fullText, diagnostics, pdfType,
                   ocrAttempted, outcome>>

\* normalizeDate(dateStr) of the CSV parser
NormalizeDateCsvCall ==
    /\ pc = "given"
    /\ content \in DateInputs
    /\ pc' = "csv_date_done"
    /\ finalText' = normalizeDateCsv(content, tzOffset)
    /\ UNCHANGED <<tzOffset, content, doc, fullText, diagnostics, pdfType,
                   ocrAttempted, outcome>>

\* normalizeDate(dateStr) of the PDF parser
NormalizeDatePdfCall ==
    /\ pc = "given"
    /\ content \in DateInputs
    /\ pc' = "pdf_date_done"
    /\ finalText' = normalizeDatePdf(content, tzOffset)
    /\ UNCHANGED <<tzOffset, content, doc, fullText, diagnostics, pdfType,
                   ocrAttempted, outcome>>

\* normalizeAmount(amountStr) of the CSV parser
NormalizeAmountCsvCall ==
    /\ pc = "given"
    /\ content \in AmountInputs
    /\ pc' = "csv_amount_done"
    /\ finalText' = normalizeAmountCsv(content)
    /\ UNCHANGED <<tzOffset, content, doc, fullText, diagnostics, pdfType,
                   ocrAttempted, outcome>>

\* normalizeAmount(amountStr) of the PDF parser
NormalizeAmountPdfCall ==
    /\ pc = "given"
    /\ content \in AmountInputs
    /\ pc' = "pdf_amount_done"
    /\ finalText' = normalizeAmountPdf(content)
    /\ UNCHANGED <<tzOffset, content, doc, fullText, diagnostics, pdfType,
                   ocrAttempted, outcome>>

\* detectCurrency(text)
DetectCurrencyCall ==
    /\ pc = "given"
    /\ content \in CurrencyInputs
    /\ pc' = "currency_done"
    /\ finalText' = detectCurrency(content)
    /\ UNCHANGED <<tzOffset, content, doc, fullText, diagnostics, pdfType,
                   ocrAttempted, outcome>>

\* parseStatementText(text)
ParseStatementTextCall ==
    /\ pc = "given"
    /\ content \in StatementTexts
    /\ pc' = "statement_done"
    /\ outcome' = parseStatementText(content, tzOffset)
    /\ UNCHANGED <<tzOffset, content, doc, fullText, diagnostics, pdfType,
                   finalText, ocrAttempted>>

\* extractFullDocumentText(buffer)
ExtractFullDocumentTextCall ==
    /\ pc = "given"
    /\ content = ""
    /\ \E d \in FragmentDocuments :
          /\ doc' = d
          /\ fullText' = extractFullDocumentText(d).fullText
          /\ diagnostics' = extractFullDocumentText(d).diagnostics
    /\ pc' = "text_done"
    /\ UNCHANGED <<tzOffset, content, pdfType, finalText, ocrAttempted, outcome>>

NextFunctions ==
    \/ DetectDelimiterCall
    \/ NormalizeDateCsvCall
    \/ NormalizeDatePdfCall
    \/ NormalizeAmountCsvCall
    \/ NormalizeAmountPdfCall
    \/ DetectCurrencyCall
    \/ ParseStatementTextCall
    \/ ExtractFullDocumentTextCall

SpecFunctions == InitFunctions /\ [][NextFunctions]_vars

-----------------------------------------------------------------------------
(* Properties.                                                             *)

\* a request has been answered with a ParsedStatement
Answered == pc \in {"csv_done", "pdf_done"} /\ outcome.kind = "return"

\* the ParsedStatement of the answer
Statement == outcome.value

\* the header of a statement in which no field was found, unscored
AllSentinelStatement ==
    [header |-> [bank |-> "unknown", bankAccount |-> "unknown",
                 customerAccount |-> "unknown", statementDate |-> "unknown",
                 openingBalance |-> "0", closingBalance |-> "0", rowScore |-> 0],
     transactions |-> <<>>,
     documentScore |-> 0]

\* the mean of the row scores a statement carries, rounded to 5 decimals,
\* after adding a bonus
MeanOfReturnedRowScores(stmt, bonus) ==
    LET n == 1 + Len(stmt.transactions)
    IN  roundScore(stmt.header.rowScore + sumRowScores(stmt.transactions)
                   + bonus * n, n)

\* C1: the documentScore of every returned statement is the 5-decimal
\* rounding of the mean of the header rowScore and the transaction rowScores
\* the same statement carries, plus 0.1 when the bonus applies (the bonus
\* term is left free here: only the mean is at stake)
C1_DocumentScoreIsMeanOfReturnedRowScores ==
    Answered =>
        \E bonus \in {0, ReconciliationBonus} :
            Statement.documentScore = MeanOfReturnedRowScores(Statement, bonus)

\* the header score the sentinel rule gives
SentinelRuleHeaderScore(header) ==
    (IF header.bank # "unknown" \/ header.bankAccount # "unknown"
        \/ header.customerAccount # "unknown" THEN BankWeight ELSE 0)
    + (IF header.statementDate # "unknown" THEN StatementDateWeight ELSE 0)
    + (IF header.openingBalance # "0" THEN BalanceWeight ELSE 0)
    + (IF header.closingBalance # "0" THEN BalanceWeight ELSE 0)

\* C2: the header rowScore of every returned statement is 0.5 if one of
\* bank, bankAccount, customerAccount is not "unknown", plus 0.1 if
\* statementDate is not "unknown", plus 0.2 for each balance that is not "0";
\* an all-sentinel header scores 0
C2_HeaderScoreFollowsSentinelRule ==
    Answered => Statement.header.rowScore = SentinelRuleHeaderScore(Statement.header)

\* the documentScore of the answer holds the 0.1 bonus: the CSV parser adds
\* it to the mean of the scored rows, the PDF parser to the mean of the rows
\* as extracted, which is 0
BonusIncluded ==
    IF pc = "csv_done"
    THEN Statement.documentScore
            = MeanOfReturnedRowScores(Statement, 0) + ReconciliationBonus
    ELSE Statement.documentScore = ReconciliationBonus

\* C3: the bonus is part of documentScore exactly when both balances are not
\* the sentinel "0" and |opening + sum of amounts - closing| < 0.01
C3_BonusIffBalancesFoundAndReconciled ==
    Answered =>
        (BonusIncluded <=>
            /\ Statement.header.openingBalance # "0"
            /\ Statement.header.closingBalance # "0"
            /\ reconciles(Statement.header, Statement.transactions))

\* the CSV content holds no record, or csv-parse rejects it
CsvDegenerate ==
    \/ dropChars(content, {"\n"}) = ""
    \/ ~csvParse(content, detectDelimiter(content)).ok

\* C4: parseCsv never throws, and for empty or malformed content it returns
\* the all-sentinel header with rowScore 0, no transactions and documentScore 0
C4_DegenerateCsvGivesEmptyStatement ==
    pc = "csv_done" =>
        /\ outcome.kind = "return"
        /\ CsvDegenerate => Statement = AllSentinelStatement

C4_Witness ==
    /\ pc = "csv_done"
    /\ includes(content, "\"")
    /\ outcome.kind = "return"
    /\ Statement.documentScore = 0

\* C5: the PDF pipeline never throws; a text layer that cannot be obtained
\* gives empty text and all-zero diagnostics; the failed OCR attempt leaves
\* the reconstructed text in place; the answer is the parse of the
\* reconstructed text, and for empty text it is the all-sentinel statement
\* with documentScore 0
C5_PdfPipelineAlwaysAnswers ==
    /\ outcome.kind # "throw"
    /\ (pc \in {"extracted", "classified", "ready", "pdf_done"}
        /\ doc.kind # "pages") =>
           /\ fullText = ""
           /\ diagnostics = [textLength |-> 0, digitCount |-> 0,
                             asciiRatio |-> 0, pageCount |-> 0]
    /\ (pc \in {"ready", "pdf_done"} /\ pdfType \in {"scanned", "unreadable"}) =>
           ocrAttempted /\ finalText = fullText
    /\ pc = "pdf_done" =>
           /\ outcome = parseStatementText(fullText, tzOffset)
           /\ fullText = "" => Statement = AllSentinelStatement

C5_Witness ==
    /\ pc = "pdf_done"
    /\ pdfType = "scanned"
    /\ ocrAttempted
    /\ outcome.kind = "return"
    /\ Statement.header.bank # "unknown"

\* the data records of the CSV content that have 3 cells and a description
CsvDataRows ==
    LET records == csvParse(content, detectDelimiter(content)).records
        rows    == IF isHeaderRow(records[1]) THEN Tail(records) ELSE records
    IN  SelectSeq(rows, LAMBDA row : Len(row) >= 3 /\ trim(row[2]) # "")

\* the raw amount of a row can be parsed as a number
RawAmountParses(row) ==
    ~parseFloat(dropChars(keepChars(trim(row[3]), AmountChars), {","})).nan

\* the raw date of a row can be normalized
RawDateNormalizes(row) == normalizeDateCsv(trim(row[1]), tzOffset) # ""

\* C6: a row with a usable description is never removed; when its raw amount
\* cannot be parsed its rowScore lacks the 0.4 amount weight, and when its
\* date cannot be normalized it has the empty date and lacks the 0.5 date
\* weight
C6_UnparsableFieldCostsPoints ==
    (pc = "csv_done" /\ outcome.kind = "return" /\ ~CsvDegenerate) =>
        /\ Len(Statement.transactions) = Len(CsvDataRows)
        /\ \A i \in 1..Len(CsvDataRows) :
              LET row == CsvDataRows[i]
                  txn == Statement.transactions[i]
              IN  (~RawAmountParses(row) \/ ~RawDateNormalizes(row)) =>
                      /\ ~RawDateNormalizes(row) => txn.date = ""
                      /\ txn.rowScore =
                            (IF RawDateNormalizes(row) THEN DateWeight ELSE 0)
                            + (IF RawAmountParses(row) THEN AmountWeight ELSE 0)
                            + (IF Len(split(txn.description, {" "})) >= 3
                               THEN DescriptionWeight ELSE 0)

\* the number of whitespace-separated tokens of a string
TokenCount(str) ==
    Cardinality({i \in 1..Len(str) :
                    /\ Ch(str, i) \notin WhiteSpace
                    /\ (i = 1 \/ Ch(str, i - 1) \in WhiteSpace)})

\* C7: the rowScore of every returned transaction is 0.5 for a YYYY-MM-DD
\* date, plus 0.4 for an amount that parses, plus 0.1 for a description of at
\* least 3 whitespace-separated tokens; it is one of 0, 0.1, 0.4, 0.5, 0.6,
\* 0.9, 1.0
C7_RowScoreFollowsWeights ==
    Answered =>
        \A i \in 1..Len(Statement.transactions) :
            LET txn == Statement.transactions[i]
            IN  /\ txn.rowScore =
                      (IF isIsoDate(txn.date) THEN DateWeight ELSE 0)
                      + (IF ~parseFloat(txn.amount).nan THEN AmountWeight ELSE 0)
                      + (IF TokenCount(txn.description) >= 3
                         THEN DescriptionWeight ELSE 0)
                /\ txn.rowScore \in {0, 10000, 40000, 50000, 60000, 90000, 100000}

ScenarioAContent ==
    "Date,Description,Amount\n2024-01-15,Coffee Shop Purchase,4.50\n2024-01-16,Grocery Store,85.23\n"

\* what scenario A fixes besides the row scores: the header row is dropped,
\* 2 transactions in file order, their dates, amounts and currency
ScenarioARows(transactions) ==
    /\ Len(transactions) = 2
    /\ transactions[1].date = "2024-01-15" /\ transactions[2].date = "2024-01-16"
    /\ transactions[1].amount = "4.50" /\ transactions[2].amount = "85.23"
    /\ transactions[1].currency = "USD" /\ transactions[2].currency = "USD"

\* C8 as amended: parseCsv on the content of scenario A returns exactly the
\* 2 transactions 2024-01-15 / 4.50 and 2024-01-16 / 85.23, both USD, the
\* first with rowScore 1.0 and the second, "Grocery Store", with rowScore 0.9
C8_ScenarioA ==
    (pc = "csv_done" /\ content = ScenarioAContent) =>
        /\ outcome.kind = "return"
        /\ ScenarioARows(Statement.transactions)
        /\ Statement.transactions[1].description = "Coffee Shop Purchase"
        /\ Statement.transactions[2].description = "Grocery Store"
        /\ Statement.transactions[1].rowScore = ScoreUnit
        /\ Statement.transactions[2].rowScore = ScoreUnit - DescriptionWeight

\* C8 as stated: both transactions of scenario A have rowScore 1.0
C8_ScenarioA_Original ==
    (pc = "csv_done" /\ content = ScenarioAContent) =>
        /\ outcome.kind = "return"
        /\ ScenarioARows(Statement.transactions)
        /\ Statement.transactions[1].rowScore = ScoreUnit
        /\ Statement.transactions[2].rowScore = ScoreUnit

C8_Witness ==
    /\ pc = "csv_done"
    /\ content = ScenarioAContent
    /\ outcome.kind = "return"
    /\ Len(Statement.transactions) = 2

\* C9: the classification is the ordered decision table on textLength,
\* digitCount and asciiRatio, first match wins; the text and pageCount have
\* no influence
C9_ReadabilityDecisionTable ==
    pc = "classified_given" =>
        LET row1 == /\ diagnostics.textLength > 200
                    /\ diagnostics.digitCount > 10
                    /\ diagnostics.asciiRatio > 700
            row2 == diagnostics.textLength > 50 /\ diagnostics.digitCount > 3
            row3 == diagnostics.textLength > 10
        IN  /\ row1 => pdfType = "text"
            /\ (~row1 /\ row2) => pdfType = "text"
            /\ (~row1 /\ ~row2 /\ row3) => pdfType = "scanned"
            /\ (~row1 /\ ~row2 /\ ~row3) => pdfType = "unreadable"
            /\ \A t \in ClassifierTexts, p \in PageCounts :
                   detectReadability(t, [diagnostics EXCEPT !.pageCount = p])
                       = pdfType

C9_Witness ==
    /\ pc = "classified_given"
    /\ pdfType = "scanned"
    /\ diagnostics.textLength = 201
    /\ diagnostics.digitCount = 3
    /\ fullText = ""

ScenarioDFirst(diag) ==
    diag.textLength = 300 /\ diag.digitCount = 15 /\ diag.asciiRatio = 850

ScenarioDSecond(diag) ==
    diag.textLength = 30 /\ diag.digitCount = 0 /\ diag.asciiRatio = 900

\* C10 as amended: {textLength 300, digitCount 15, asciiRatio 0.85} is
\* classified text, and {textLength 30, digitCount 0, asciiRatio 0.9} is
\* classified scanned, its textLength being above 10
C10_ScenarioD ==
    pc = "classified_given" =>
        /\ ScenarioDFirst(diagnostics) => pdfType = "text"
        /\ ScenarioDSecond(diagnostics) => pdfType = "scanned"

\* C10 as stated: the second diagnostics are classified unreadable
C10_ScenarioD_Original ==
    pc = "classified_given" =>
        /\ ScenarioDFirst(diagnostics) => pdfType = "text"
        /\ ScenarioDSecond(diagnostics) => pdfType = "unreadable"

C10_Witness ==
    /\ pc = "classified_given"
    /\ ScenarioDSecond(diagnostics)
    /\ pdfType = "scanned"

\* the lines of a text that are not blank
NonEmptyLines(text) == SelectSeq(split(text, {"\n"}), LAMBDA l : trim(l) # "")

\* the first n lines of a text that are not blank, joined
FirstNonEmptyLines(text, n) == join(firstN(NonEmptyLines(text), n), "\n")

\* C11: the delimiter is ';' if and only if, over the first 5 non-empty lines
\* of the content, the semicolons are strictly more than the commas; blank
\* lines do not use up the sample
C11_DelimiterFromFirstFiveNonEmptyLines ==
    pc = "delimiter_done" =>
        finalText = IF countChars(FirstNonEmptyLines(content, 5), {";"})
                       > countChars(FirstNonEmptyLines(content, 5), {","})
                    THEN ";" ELSE ","

\* the date a month/day/year text names, as YYYY-MM-DD
NamedDate(c) ==
    padStart(natToString(c.y), 4) \o "-" \o padStart(natToString(c.m), 2)
    \o "-" \o padStart(natToString(c.d), 2)

DateNormalized == pc \in {"csv_date_done", "pdf_date_done"}

\* C12: a date written N/N/YYYY is read as month/day/year and comes back as
\* YYYY-MM-DD with the same year, month and day, from the CSV normalizer and the
\* PDF normalizer alike, whatever the time zone of the host
C12_NumericDateKeepsItsDay ==
    \A c \in NumericDateCases :
        (DateNormalized /\ content = numericDateText(c)) => finalText = NamedDate(c)

\* YYYY-MM-DD naming a day of the calendar
CalendarFields(y, m, d) == m \in 1..12 /\ d \in 1..DaysInMonth(m, y)

CalendarDate(s) ==
    /\ isIsoDate(s)
    /\ CalendarFields(parseDigits(SubSeq(s, 1, 4)), parseDigits(SubSeq(s, 6, 7)),
                      parseDigits(SubSeq(s, 9, 10)))

OutOfRangeDateInputs == {"13/01/2024", "2024-13-45", "Feb 31, 2024"}

\* C13: a date normalizer returns a valid YYYY-MM-DD date unchanged, returns
\* for every other input either "" or a valid calendar date, and returns "" for
\* 13/01/2024, 2024-13-45 and Feb 31, 2024 instead of rolling them over
C13_DateIsValidOrEmpty ==
    DateNormalized =>
        /\ CalendarDate(content) => finalText = content
        /\ finalText = "" \/ CalendarDate(finalText)
        /\ content \in OutOfRangeDateInputs => finalText = ""

\* the value of an amount case as a signed string with 2 fraction digits
SignedAmount(c) ==
    (IF c.sign = "plus" THEN "" ELSE "-")
    \o natToString(c.v \div 100) \o "." \o padStart(natToString(c.v % 100), 2)

AmountNormalized == pc \in {"csv_amount_done", "pdf_amount_done"}

\* C14: every notation of one amount (currency symbol or none, thousands
\* separators or none, a leading minus or parentheses for a negative amount)
\* is normalized to the same signed string with exactly 2 fraction digits, by
\* the CSV normalizer and the PDF normalizer alike, and a text without a
\* number gives "0.00"
C14_AmountNotationsAgree ==
    AmountNormalized =>
        /\ \A c \in AmountCases : content = amountText(c) => finalText = SignedAmount(c)
        /\ content \in UnparsableAmounts => finalText = "0.00"

\* a negative amount written in parentheses with a symbol and separators has
\* been normalized
C14_Witness ==
    /\ AmountNormalized
    /\ content = "($1,200.50)"
    /\ finalText = "-1200.50"

\* the currency table: codes in order, each with the texts that cue it
CurrencyTable ==
    << [code |-> "USD", cues |-> {"$", "usd", "us dollar"}],
       [code |-> "EUR", cues |-> {"€", "eur", "euro"}],
       [code |-> "GBP", cues |-> {"£", "gbp", "pound"}],
       [code |-> "PHP", cues |-> {"₱", "php", "peso"}],
       [code |-> "SGD", cues |-> {"s$", "sgd", "singapore"}] >>

\* the entries of the table with a cue in the lower-cased text
CuedEntries(lower) ==
    {k \in 1..Len(CurrencyTable) : \E cue \in CurrencyTable[k].cues : includes(lower, cue)}

FirstCuedCode(text) ==
    IF CuedEntries(toLowerCase(text)) = {} THEN "USD"
    ELSE CurrencyTable[minOf(CuedEntries(toLowerCase(text)))].code

StatementParsed == pc = "statement_done" /\ outcome.kind = "return"

\* C15: the currency detector returns the code of the first entry, in the order
\* USD, EUR, GBP, PHP, SGD, that has a cue in the text, and USD when none has;
\* every transaction of a parsed statement text carries the currency detected
\* on all its lines joined
C15_FirstCuedCurrencyForAllTransactions ==
    /\ pc = "currency_done" => finalText = FirstCuedCode(content)
    /\ StatementParsed =>
           \A i \in 1..Len(outcome.value.transactions) :
               outcome.value.transactions[i].currency
                   = FirstCuedCode(join(textLines(content), " "))

\* a statement has two transactions, of which only the second has a currency
\* cue, and the first carries its currency
C15_Witness ==
    /\ StatementParsed
    /\ Len(outcome.value.transactions) = 2
    /\ ~includes(textLines(content)[1], "$")
    /\ includes(textLines(content)[2], "$")
    /\ outcome.value.transactions[1].currency = "USD"

HeaderFieldNames ==
    {"bank", "customerAccount", "statementDate", "openingBalance", "closingBalance"}

\* the lines among the first 15 that match the trigger of a field: alone, such
\* a line sets the field
FieldSetters(lines, field, tz) ==
    {k \in 1..Len(firstN(lines, 15)) :
        headerStep(sentinelHeader, lines[k], tz)[field] # sentinelHeader[field]}

\* the value the first matching line gives a field
FirstLineValue(lines, setters, field, tz) ==
    IF setters = {} THEN sentinelHeader[field]
    ELSE headerStep(sentinelHeader, lines[minOf(setters)], tz)[field]

\* C16: each header field of a parsed statement text has the value given by the
\* first of the first 15 non-empty lines that matches the trigger of the field;
\* later matching lines do not overwrite it and lines after the 15th do not
\* count
C16_HeaderFieldFromFirstMatchingLine ==
    StatementParsed =>
        \A field \in HeaderFieldNames :
            outcome.value.header[field]
                = FirstLineValue(textLines(content),
                                 FieldSetters(textLines(content), field, tzOffset),
                                 field, tzOffset)

\* the text lying between the matched date and the matched amount of a line
BetweenText(line, dateMatch, amountMatch) ==
    IF dateMatch.index < amountMatch.index
    THEN substring(line, dateMatch.index + Len(dateMatch.text), amountMatch.index)
    ELSE substring(line, amountMatch.index + Len(amountMatch.text), dateMatch.index)

\* a text of one line has given one transaction
OneLineTransaction ==
    /\ StatementParsed
    /\ Len(textLines(content)) = 1
    /\ Len(outcome.value.transactions) = 1

DescriptionIsBetween(txn, line, dateMatch, amountMatch) ==
    /\ txn.description
           = mergeMultilineDescription(trim(BetweenText(line, dateMatch, amountMatch)))
    /\ ~includes(txn.description, dateMatch.text)
    /\ ~includes(txn.description, amountMatch.text)

ScenarioBLine == "2024-03-01 Monthly Service Fee $12.00"

\* C17: the description of a transaction extracted from a line is the cleaned
\* text between the matched date and the matched amount, whichever comes
\* first, and contains neither; the line 2024-03-01 Monthly Service Fee $12.00
\* gives date 2024-03-01, amount 12.00, description Monthly Service Fee, score 1
C17_DescriptionBetweenDateAndAmount ==
    OneLineTransaction =>
        /\ DescriptionIsBetween(outcome.value.transactions[1], textLines(content)[1],
                                isoDateMatchOf(textLines(content)[1]),
                                amountMatchOf(textLines(content)[1]))
        /\ textLines(content)[1] = ScenarioBLine =>
               /\ outcome.value.transactions[1].date = "2024-03-01"
               /\ outcome.value.transactions[1].amount = "12.00"
               /\ outcome.value.transactions[1].description = "Monthly Service Fee"
               /\ outcome.value.transactions[1].rowScore = ScoreUnit

PdfAnswered == pc = "pdf_done" /\ outcome.kind = "return"

\* C18: every transaction in the result of parsePdf has a description of at
\* least 1 character
C18_PdfDescriptionsNonEmpty ==
    PdfAnswered =>
        \A i \in 1..Len(Statement.transactions) :
            Len(Statement.transactions[i].description) >= 1

ParenthesizedLine == "2024-03-02 Refund ($50.00)"

HasLine(lines, line) == \E k \in 1..Len(lines) : lines[k] = line

\* the transactions of the answer that come from the refund line, the only
\* line of the pool with that date
RefundTransactions ==
    {i \in 1..Len(Statement.transactions) : Statement.transactions[i].date = "2024-03-02"}

\* C19: the line 2024-03-02 Refund ($50.00) has its amount matched together
\* with the parentheses and gives a transaction of amount -50.00
C19_ParenthesizedAmountIsNegative ==
    (PdfAnswered /\ HasLine(textLines(finalText), ParenthesizedLine)) =>
        /\ amountMatchOf(ParenthesizedLine).text = "($50.00)"
        /\ RefundTransactions # {}
        /\ \A i \in RefundTransactions : Statement.transactions[i].amount = "-50.00"

\* the records of the CSV content after the header row, if any
CsvRemainingRecords == dataRowsOf(csvParse(content, detectDelimiter(content)).records)

\* those with at least 3 cells, in the order of the file
CsvRecordsOfThree == SelectSeq(CsvRemainingRecords, LAMBDA row : Len(row) >= 3)

\* the transaction is built from the first three cells of the record
BuiltFrom(txn, row) ==
    /\ txn.date = normalizeDateCsv(trim(row[1]), tzOffset)
    /\ txn.description = trim(row[2])
    /\ txn.amount = normalizeAmountCsv(IF trim(row[3]) = "" THEN "0" ELSE trim(row[3]))

\* C20: once the header row is dropped, each record with at least 3 cells gives
\* exactly one transaction, built from its first three cells; only records
\* with fewer cells are skipped; the transactions are in the order of the
\* records, duplicates included
C20_EveryRecordOfThreeCellsIsATransaction ==
    (pc = "csv_done" /\ outcome.kind = "return" /\ ~CsvDegenerate) =>
        /\ Len(Statement.transactions) = Len(CsvRecordsOfThree)
        /\ \A i \in 1..Len(CsvRecordsOfThree) :
               i <= Len(Statement.transactions)
                   => BuiltFrom(Statement.transactions[i], CsvRecordsOfThree[i])

\* a comes before b when fragments are ordered by descending Y, then ascending X
HigherThenLefter(a, b) == a.y > b.y \/ (a.y = b.y /\ a.x <= b.x)

\* the items ordered by descending Y, ascending X between equal Y
RECURSIVE SortedByYThenX(_)
SortedByYThenX(items) ==
    IF Len(items) <= 1 THEN items
    ELSE LET sorted == SortedByYThenX(SubSeq(items, 1, Len(items) - 1))
             item   == items[Len(items)]
             j      == Cardinality({k \in 1..Len(sorted) : HigherThenLefter(sorted[k], item)})
         IN  SubSeq(sorted, 1, j) \o <<item>> \o SubSeq(sorted, j + 1, Len(sorted))

\* the text of the pages from page i on when each page is ordered that way and
\* then walked into lines
RECURSIVE TextByYThenX(_, _, _)
TextByYThenX(pages, i, text) ==
    IF i > Len(pages) THEN text
    ELSE TextByYThenX(pages, i + 1,
             walkItems(SortedByYThenX(pages[i]), 1,
                       IF Len(pages[i]) = 0 THEN 0 ELSE SortedByYThenX(pages[i])[1].y,
                       "", text)
             \o (IF i < Len(pages) THEN "\n" ELSE ""))

\* the height of the pool fragment with that text
FragmentY(str) == (CHOOSE f \in FragmentPool : f.str = str).y

\* the heights of the lettered fragments of a text, in the order of the text
EmittedHeights(text) ==
    [k \in 1..Len(keepChars(text, UpperLetters)) |->
        FragmentY(Ch(keepChars(text, UpperLetters), k))]

NonIncreasing(seq) == \A k \in 1..(Len(seq) - 1) : seq[k] >= seq[k + 1]

\* every line of the text of one page, i.e. every piece ended by a line feed
NoEmptyLine(text) ==
    \A k \in 1..(Len(split(text, {"\n"})) - 1) : split(text, {"\n"})[k] # ""

TextReconstructed == pc = "text_done"

\* C21: the reconstructed text is that of the fragments of each page ordered
\* by descending Y, with ascending X only between equal Y, and walked into
\* lines that break where the Y is more than 5 away from the Y of the first
\* fragment of the line, the pages in page order; within a page the fragments
\* come out in non-increasing Y and no line is empty
C21_FragmentsByDescendingY ==
    TextReconstructed =>
        /\ fullText = TextByYThenX(doc.pages, 1, "")
        /\ Len(doc.pages) = 1 =>
               /\ NonIncreasing(EmittedHeights(fullText))
               /\ NoEmptyLine(fullText)

====
